---- MODULE Spec2Model ----
(***************************************************************************)
(* Model of the retrieval-augmented chat agent of llama-assistant:         *)
(* RAGAgent (agent.py) driven by ProcessingThread.run                      *)
(* (processing_thread.py).  Texts are sequences of tokens, so that string  *)
(* concatenation is \o and a template is a sequence with its slots filled. *)
(***************************************************************************)
EXTENDS Integers, Sequences, FiniteSets, TLC

\* ---------------------------------------------------------------- bounds
MaxHistory == 4
MaxChunks == 4
MaxRead == 6

\* ------------------------------------------------------ program constants
k == 3
similarity_cutoff == 3

\* ------------------------------------------------------------ input sets
Procs == {1, 2}
Files == {"a.txt", "b.txt"}
NoImage == "no_image"
\* the prompts a thread is created with: a text, and an image or none
Prompts == { [prompt |-> <<"q1">>, image |-> NoImage], [prompt |-> <<"q2">>, image |-> "img1"] }
None == [none |-> TRUE]
\* similarity scores in tenths, one below and one above the cutoff
LowScore == similarity_cutoff - 1
HighScore == similarity_cutoff + 1

\* what the opaque language model may answer: a rewrite, or a stream of deltas
\* (a role delta, content deltas, a closing delta with neither key)
Rewrites == {<<"standalone">>}
Streams ==
    { << [role |-> "assistant"], [content |-> <<"Par">>], [content |-> <<"is">>], [finish |-> "stop"] >>,
      << [content |-> <<"Yes">>] >> }

\* number of documents SimpleDirectoryReader yields for a file
DocCount(f) == IF f = "a.txt" THEN 2 ELSE 1

VARIABLES
    search_index,       \* RAGAgent.search_index: None or the sequence of indexed chunks
    retriever,          \* RAGAgent.retriever: None or a retriever over search_index
    chat_history,       \* RAGAgent.chat_history
    lookup_files,       \* RAGAgent.lookup_files, the retained set
    pc,                 \* position of each ProcessingThread
    thread,             \* the fields of each ProcessingThread (prompt, image, lookup_files)
    ev,                 \* the workflow event in flight of each invocation
    ctx,                \* the workflow Context of each invocation
    output,             \* the fragments the response stream has still to yield
    full_response_str,  \* ProcessingThread.run local
    update_signal,      \* emissions of update_signal, per thread
    finished_signal,    \* number of emissions of finished_signal, per thread
    steps,              \* the workflow steps each invocation has run
    llm_calls,          \* the create_chat_completion calls of each invocation
    retriever_calls,    \* the aretrieve calls of each invocation
    before,             \* the agent's state when the invocation started
    overlapped          \* an invocation has started while another was in the workflow

vars == << search_index, retriever, chat_history, lookup_files, pc, thread, ev, ctx,
           output, full_response_str, update_signal, finished_signal, steps, llm_calls,
           retriever_calls, before, overlapped >>

agentVars == << search_index, retriever, chat_history, lookup_files >>

\* ------------------------------------------------------------ helpers
RECURSIVE Flatten(_)
Flatten(ss) == IF ss = << >> THEN << >> ELSE Head(ss) \o Flatten(Tail(ss))

Perms(S) == { s \in [1..Cardinality(S) -> S] : \A i, j \in 1..Cardinality(S) : i # j => s[i] # s[j] }

NoEvent == [type |-> "NoEvent"]
NoThread == [prompt |-> << >>, image |-> NoImage, lookup_files |-> {}]
NoContext == [query_str |-> << >>, image |-> NoImage, streaming |-> FALSE]
NoSnapshot == [search_index |-> None, retriever |-> None, chat_history |-> << >>, lookup_files |-> {}]

Init ==
    /\ search_index = None
    /\ retriever = None
    /\ chat_history = << >>
    /\ lookup_files = {}
    /\ pc = [p \in Procs |-> "Idle"]
    /\ thread = [p \in Procs |-> NoThread]
    /\ ev = [p \in Procs |-> NoEvent]
    /\ ctx = [p \in Procs |-> NoContext]
    /\ output = [p \in Procs |-> << >>]
    /\ full_response_str = [p \in Procs |-> << >>]
    /\ update_signal = [p \in Procs |-> << >>]
    /\ finished_signal = [p \in Procs |-> 0]
    /\ steps = [p \in Procs |-> << >>]
    /\ llm_calls = [p \in Procs |-> << >>]
    /\ retriever_calls = [p \in Procs |-> << >>]
    /\ before = [p \in Procs |-> NoSnapshot]
    /\ overlapped = FALSE

\* ------------------------------------------------------- pure functions
\* convert_message_list_to_str: "<role>: <content>\n" per message
RECURSIVE convert_message_list_to_str(_)
convert_message_list_to_str(messages) ==
    IF messages = << >> THEN << >>
    ELSE << Head(messages).role, ": " >> \o Head(messages).content \o << "\n" >>
         \o convert_message_list_to_str(Tail(messages))

\* SUMMARY_TEMPLATE.format(chat_history_str, query_str)
SUMMARY_TEMPLATE(chat_history_str, query_str) ==
    << "Given the chat history:\n'''" >> \o chat_history_str
    \o << "'''\n\nAnd the user asked the following question:" >> \o query_str
    \o << "\nRewrite to a standalone question:\n" >>

\* CONTEXT_PROMPT_TEMPLATE.format(node_context, query_str)
CONTEXT_PROMPT_TEMPLATE(node_context, query_str) ==
    << "Information that might help:\n-----\n" >> \o node_context
    \o << "\n-----\nPlease write a response to the following question, using the above information if relevant:\n" >>
    \o query_str \o << "\n" >>

\* a condition that forgets the retriever
NeedsCondensingHistoryOnly(history, retr) == Len(history) > 0

\* the branch condition of condense_history_to_query
NeedsCondensing(history, retr) == Len(history) > 0 \/ retr # None

\* the condensed query built from the model's rewrite
CondensedQuery(history_summary, query_str) ==
    << "Context:\n" >> \o history_summary \o << "\nQuestion: " >> \o query_str

\* the call condense_history_to_query makes to the model
CondenseCall(history, query_str) ==
    [messages |-> << [role |-> "user",
                      content |-> SUMMARY_TEMPLATE(convert_message_list_to_str(history), query_str),
                      image_url |-> NoImage] >>,
     stream |-> FALSE]

\* node.get_content(metadata_mode="llm"): metadata and text of the chunk
NodeText(node) == << node.file_path, "#", ToString(node.page_index), node.text >>

\* a context assembled in reverse
RECURSIVE NodeContextReversed(_)
NodeContextReversed(nodes) ==
    IF nodes = << >> THEN << >>
    ELSE NodeContextReversed(Tail(nodes)) \o << "\n" >> \o NodeText(Head(nodes)) \o << "\n\n" >>

RECURSIVE NodeContext(_)
NodeContext(nodes) ==
    IF nodes = << >> THEN << >>
    ELSE << "\n" >> \o NodeText(Head(nodes)) \o << "\n\n" >> \o NodeContext(Tail(nodes))

prepare_query_with_context(query_str, nodes) ==
    IF Len(nodes) = 0 THEN query_str
    ELSE CONTEXT_PROMPT_TEMPLATE(NodeContext(nodes), query_str)

\* formated_message of llm_response
FormatedMessage(query_with_ctx, image) ==
    [role |-> "user", content |-> query_with_ctx, image_url |-> image]

\* a turn that carries the prompt sent to the model
UserTurnWithContext(query_str, query_with_ctx) == [role |-> "user", content |-> query_with_ctx]

\* the turn llm_response appends to chat_history
UserTurn(query_str, query_with_ctx) == [role |-> "user", content |-> query_str]

\* a final call made after the user turn was appended
ResponseCallAfterAppend(history, formated_message, streaming) ==
    [messages |-> history \o << [role |-> "user", content |-> formated_message.content] >>
                  \o << formated_message >>,
     stream |-> streaming]

\* the final model call of llm_response
ResponseCall(history, formated_message, streaming) ==
    [messages |-> history \o << formated_message >>, stream |-> streaming]

\* ------------------------------------------------------------ the index
\* SimpleDirectoryReader(input_files=files).load_data(): the documents of each
\* file in order; the files in the iteration order of the set
FileDocs(f) == [i \in 1..DocCount(f) |-> [file_path |-> f, text |-> "text"]]

LoadData(files) ==
    { Flatten([i \in 1..Cardinality(files) |-> FileDocs(order[i])]) : order \in Perms(files) }

\* one counter for all files
PageIndexGlobal(documents, i) == i - 1

\* page_num_tracker: the number of earlier documents of the same file
PageIndexOf(documents, i) ==
    Cardinality({ j \in 1..(i - 1) : documents[j].file_path = documents[i].file_path })

AssignPageIndex(documents) ==
    [i \in 1..Len(documents) |->
        [file_path |-> documents[i].file_path, text |-> documents[i].text,
         page_index |-> PageIndexOf(documents, i)]]

RECURSIVE NumDocs(_)
NumDocs(files) ==
    IF files = {} THEN 0
    ELSE LET f == CHOOSE x \in files : TRUE IN DocCount(f) + NumDocs(files \ {f})

Retriever == [similarity_top_k |-> k]

\* The index udpate_index leaves when it indexes documents into idx
\* (VectorStoreIndex.from_documents on no index, insert one by one otherwise)
IndexedInto(idx, documents) ==
    IF idx = None THEN [docs |-> documents] ELSE [docs |-> idx.docs \o documents]

\* an udpate_index that returns on no files without dropping anything
ClearOutcomeKeepsAll(idx, retr) == { [search_index |-> idx, retriever |-> retr, raised |-> FALSE] }

\* an udpate_index that drops the retriever only
ClearOutcomeKeepsIndex(idx, retr) == { [search_index |-> idx, retriever |-> None, raised |-> FALSE] }

\* udpate_index with no files: retriever and index are dropped
ClearOutcome(idx, retr) == { [search_index |-> None, retriever |-> None, raised |-> FALSE] }

\* The outcomes of udpate_index(files) on (idx, retr): the fields it leaves and
\* whether it raised (reading, embedding a new index, or embedding an insert)
UpdateIndexOutcomes(files, idx, retr) ==
    IF files = {} THEN ClearOutcome(idx, retr)
    ELSE UNION { LET documents == AssignPageIndex(read) IN
                   { [search_index |-> idx, retriever |-> retr, raised |-> TRUE],
                     [search_index |-> IndexedInto(idx, documents),
                      retriever |-> Retriever, raised |-> FALSE] }
                   \cup
                   (IF idx = None THEN {}
                    ELSE { [search_index |-> [docs |-> idx.docs \o SubSeq(documents, 1, j)],
                            retriever |-> retr, raised |-> TRUE] : j \in 1..(Len(documents) - 1) })
                 : read \in LoadData(files) }

\* retriever.aretrieve: the similarity_top_k best chunks of the index, ranked by
\* descending score.  The scores are the embedding model's: the rankings drawn
\* here put the chunks in index order or in reverse index order, and give the
\* first c of the returned nodes the high score and the others the low one.
Ranking(n, reversed) == [i \in 1..n |-> IF reversed THEN n + 1 - i ELSE i]

Aretrieve(idx, retr) ==
    LET n == Len(idx.docs)
        m == IF retr.similarity_top_k < n THEN retr.similarity_top_k ELSE n
    IN { [i \in 1..m |-> [file_path |-> idx.docs[Ranking(n, reversed)[i]].file_path,
                          page_index |-> idx.docs[Ranking(n, reversed)[i]].page_index,
                          text |-> idx.docs[Ranking(n, reversed)[i]].text,
                          score |-> IF i <= c THEN HighScore ELSE LowScore]]
         : reversed \in BOOLEAN, c \in 0..m }

\* a postprocessor without cutoff
KeepsEveryNode(node) == TRUE

\* SimilarityPostprocessor(similarity_cutoff).postprocess_nodes
KeepsNode(node) == node.score >= similarity_cutoff

postprocess_nodes(nodes) == SelectSeq(nodes, KeepsNode)

\* --------------------------------------------------------- the actions
InFlight(p) == pc[p] \in {"chat_completion", "for_chunk"}

Snapshot == [search_index |-> search_index, retriever |-> retriever,
             chat_history |-> chat_history, lookup_files |-> lookup_files]

\* the model's bound on the index: an update with files fits
FitsIndex(files) ==
    \/ files = {}
    \/ files = lookup_files
    \/ search_index = None
    \/ search_index # None /\ Len(search_index.docs) + NumDocs(files) <= MaxChunks

\* ProcessingThread.run calls chat_completion(prompt, image, lookup_files, stream=True),
\* which starts the workflow with a StartEvent
Start(p) ==
    /\ pc[p] = "Idle"
    /\ \A q \in Procs : q < p => pc[q] # "Idle"      \* threads are interchangeable: take the first free one
    /\ Len(chat_history) + 2 * (Cardinality({ q \in Procs : InFlight(q) }) + 1) <= MaxHistory
    /\ \E in \in Prompts, files \in SUBSET Files :
          /\ FitsIndex(files)
          /\ thread' = [thread EXCEPT ![p] = [prompt |-> in.prompt, image |-> in.image,
                                              lookup_files |-> files]]
          /\ ev' = [ev EXCEPT ![p] = [type |-> "StartEvent", query_str |-> in.prompt,
                                      image |-> in.image, lookup_files |-> files,
                                      streaming |-> TRUE]]
    /\ pc' = [pc EXCEPT ![p] = "chat_completion"]
    /\ before' = [before EXCEPT ![p] = Snapshot]
    /\ overlapped' = (overlapped \/ \E q \in Procs : pc[q] = "chat_completion")
    /\ UNCHANGED << agentVars, ctx, output, full_response_str, update_signal,
                    finished_signal, steps, llm_calls, retriever_calls >>

\* invocations are serialized: at most one in flight
StartSerial(p) ==
    /\ \A q \in Procs : pc[q] = "Idle"
    /\ Start(p)

\* a condense step declared on the StartEvent
StepInputCondenseOnStart(step) ==
    CASE step = "setup" -> "StartEvent"
      [] step = "condense_history_to_query" -> "StartEvent"
      [] step = "retrieve" -> "CondenseQueryEvent"
      [] step = "llm_response" -> "RetrievalEvent"

\* the event each step accepts (its ev parameter's type)
StepInput(step) ==
    CASE step = "setup" -> "StartEvent"
      [] step = "condense_history_to_query" -> "SetupEvent"
      [] step = "retrieve" -> "CondenseQueryEvent"
      [] step = "llm_response" -> "RetrievalEvent"

\* a setup that updates the index on every invocation
SetupOutcomesAlwaysUpdates(files) == UpdateIndexOutcomes(files, search_index, retriever)

\* setup updates the index only if the incoming set differs from the retained one
SetupOutcomes(files) ==
    IF files # lookup_files
    THEN UpdateIndexOutcomes(files, search_index, retriever)
    ELSE { [search_index |-> search_index, retriever |-> retriever, raised |-> FALSE] }

\* a setup that forgets which set the index was built for
RetainedNothing(files) == {}

\* a setup that does not retain the incoming set
RetainedStale(files) == lookup_files

\* self.lookup_files = lookup_files.copy()
RetainedAfterSetup(files) == files

\* a setup that retains the incoming set before it updates the index
RetainedEarly(files) == files

\* udpate_index raised: line 101 is not reached
RetainedAfterRaise(files) == lookup_files

\* step setup
Setup(p) ==
    /\ pc[p] = "chat_completion"
    /\ ev[p].type = StepInput("setup")
    /\ FitsIndex(ev[p].lookup_files)
    /\ ctx' = [ctx EXCEPT ![p] = [query_str |-> ev[p].query_str, image |-> ev[p].image,
                                  streaming |-> ev[p].streaming]]
    /\ steps' = [steps EXCEPT ![p] = Append(@, "setup")]
    /\ \E o \in SetupOutcomes(ev[p].lookup_files) :
          /\ search_index' = o.search_index
          /\ retriever' = o.retriever
          /\ IF o.raised
             THEN /\ pc' = [pc EXCEPT ![p] = "Failed"]
                  /\ lookup_files' = RetainedAfterRaise(ev[p].lookup_files)
                  /\ UNCHANGED ev
             ELSE /\ lookup_files' = RetainedAfterSetup(ev[p].lookup_files)
                  /\ ev' = [ev EXCEPT ![p] = [type |-> "SetupEvent"]]
                  /\ UNCHANGED pc
    /\ UNCHANGED << chat_history, thread, output, full_response_str, update_signal,
                    finished_signal, llm_calls, retriever_calls, before, overlapped >>

\* step condense_history_to_query
Condense(p) ==
    /\ pc[p] = "chat_completion"
    /\ ev[p].type = StepInput("condense_history_to_query")
    /\ steps' = [steps EXCEPT ![p] = Append(@, "condense_history_to_query")]
    /\ IF NeedsCondensing(chat_history, retriever)
       THEN /\ llm_calls' = [llm_calls EXCEPT
                                ![p] = Append(@, CondenseCall(chat_history, ctx[p].query_str))]
            /\ \/ \E history_summary \in Rewrites :
                     /\ ev' = [ev EXCEPT ![p] =
                                  [type |-> "CondenseQueryEvent",
                                   condensed_query_str |->
                                       CondensedQuery(history_summary, ctx[p].query_str)]]
                     /\ UNCHANGED pc
               \/ /\ pc' = [pc EXCEPT ![p] = "Failed"]
                  /\ UNCHANGED ev
       ELSE /\ ev' = [ev EXCEPT ![p] = [type |-> "CondenseQueryEvent",
                                        condensed_query_str |-> ctx[p].query_str]]
            /\ UNCHANGED << pc, llm_calls >>
    /\ UNCHANGED << agentVars, thread, ctx, output, full_response_str, update_signal,
                    finished_signal, retriever_calls, before, overlapped >>

\* step retrieve
Retrieve(p) ==
    /\ pc[p] = "chat_completion"
    /\ ev[p].type = StepInput("retrieve")
    /\ steps' = [steps EXCEPT ![p] = Append(@, "retrieve")]
    /\ IF retriever = None
       THEN /\ ev' = [ev EXCEPT ![p] = [type |-> "RetrievalEvent", nodes |-> << >>]]
            /\ UNCHANGED << pc, retriever_calls >>
       ELSE /\ retriever_calls' = [retriever_calls EXCEPT
                                      ![p] = Append(@, [query |-> ev[p].condensed_query_str,
                                                        indexed_for |-> lookup_files])]
            /\ \/ \E nodes \in Aretrieve(search_index, retriever) :
                     /\ ev' = [ev EXCEPT ![p] = [type |-> "RetrievalEvent",
                                                 nodes |-> postprocess_nodes(nodes)]]
                     /\ UNCHANGED pc
               \/ /\ pc' = [pc EXCEPT ![p] = "Failed"]
                  /\ UNCHANGED ev
    /\ UNCHANGED << agentVars, thread, ctx, output, full_response_str, update_signal,
                    finished_signal, llm_calls, before, overlapped >>

\* step llm_response; chat_completion then returns the response to run
Respond(p) ==
    /\ pc[p] = "chat_completion"
    /\ ev[p].type = StepInput("llm_response")
    /\ steps' = [steps EXCEPT ![p] = Append(@, "llm_response")]
    /\ LET query_str == ctx[p].query_str
           query_with_ctx == prepare_query_with_context(query_str, ev[p].nodes)
           formated_message == FormatedMessage(query_with_ctx, ctx[p].image)
       IN /\ llm_calls' = [llm_calls EXCEPT
                              ![p] = Append(@, ResponseCall(chat_history, formated_message,
                                                            ctx[p].streaming))]
          /\ \/ \E response \in Streams :
                   /\ chat_history' = Append(chat_history, UserTurn(query_str, query_with_ctx))
                   /\ ev' = [ev EXCEPT ![p] = [type |-> "StopEvent", result |-> response]]
                   /\ output' = [output EXCEPT ![p] = response]
                   /\ pc' = [pc EXCEPT ![p] = "for_chunk"]
             \/ /\ pc' = [pc EXCEPT ![p] = "Failed"]
                /\ UNCHANGED << chat_history, ev, output >>
    /\ UNCHANGED << search_index, retriever, lookup_files, thread, ctx, full_response_str,
                    update_signal, finished_signal, retriever_calls, before, overlapped >>

\* the workflow's overall timeout expires between two steps
Timeout(p) ==
    /\ pc[p] = "chat_completion"
    /\ ev[p].type \in {"SetupEvent", "CondenseQueryEvent", "RetrievalEvent"}
    /\ pc' = [pc EXCEPT ![p] = "Failed"]
    /\ UNCHANGED << agentVars, thread, ev, ctx, output, full_response_str, update_signal,
                    finished_signal, steps, llm_calls, retriever_calls, before, overlapped >>

\* a loop that keeps the last fragment only
AccumulateLast(full, delta) ==
    IF "role" \in DOMAIN delta THEN full
    ELSE IF "content" \in DOMAIN delta THEN delta.content
    ELSE full

\* full_response_str after one fragment: only a content delta adds to it
Accumulate(full, delta) ==
    IF "role" \in DOMAIN delta THEN full
    ELSE IF "content" \in DOMAIN delta THEN full \o delta.content
    ELSE full

\* emissions kept newest first
EmitPrepend(emitted, delta) ==
    IF "role" \in DOMAIN delta THEN emitted
    ELSE IF "content" \in DOMAIN delta THEN << delta.content >> \o emitted
    ELSE emitted

\* the update_signal emissions after one fragment
Emit(emitted, delta) ==
    IF "role" \in DOMAIN delta THEN emitted
    ELSE IF "content" \in DOMAIN delta THEN Append(emitted, delta.content)
    ELSE emitted

\* one iteration of "for chunk in output"
Consume(p) ==
    /\ pc[p] = "for_chunk"
    /\ output[p] # << >>
    /\ LET delta == Head(output[p])
       IN /\ full_response_str' = [full_response_str EXCEPT ![p] = Accumulate(@, delta)]
          /\ update_signal' = [update_signal EXCEPT ![p] = Emit(@, delta)]
    /\ output' = [output EXCEPT ![p] = Tail(@)]
    /\ UNCHANGED << agentVars, pc, thread, ev, ctx, finished_signal, steps, llm_calls,
                    retriever_calls, before, overlapped >>

\* the model fails while it produces the next fragment of the stream
StreamRaise(p) ==
    /\ pc[p] = "for_chunk"
    /\ output[p] # << >>
    /\ pc' = [pc EXCEPT ![p] = "Failed"]
    /\ UNCHANGED << agentVars, thread, ev, ctx, output, full_response_str, update_signal,
                    finished_signal, steps, llm_calls, retriever_calls, before, overlapped >>

\* model_handler.update_chat_history(message, role)
update_chat_history(history, message, role) ==
    Append(history, [role |-> role, content |-> message])

\* the stream is exhausted: record the answer, emit finished_signal
Finish(p) ==
    /\ pc[p] = "for_chunk"
    /\ output[p] = << >>
    /\ chat_history' = update_chat_history(chat_history, full_response_str[p], "assistant")
    /\ finished_signal' = [finished_signal EXCEPT ![p] = @ + 1]
    /\ pc' = [pc EXCEPT ![p] = "Done"]
    /\ UNCHANGED << search_index, retriever, lookup_files, thread, ev, ctx, output,
                    full_response_str, update_signal, steps, llm_calls, retriever_calls,
                    before, overlapped >>

\* the thread has ended (run returned or raised); its locals and the
\* invocation's Context are discarded
Discard(p) ==
    /\ pc[p] \in {"Done", "Failed"}
    /\ pc' = [pc EXCEPT ![p] = "Idle"]
    /\ thread' = [thread EXCEPT ![p] = NoThread]
    /\ ev' = [ev EXCEPT ![p] = NoEvent]
    /\ ctx' = [ctx EXCEPT ![p] = NoContext]
    /\ output' = [output EXCEPT ![p] = << >>]
    /\ full_response_str' = [full_response_str EXCEPT ![p] = << >>]
    /\ update_signal' = [update_signal EXCEPT ![p] = << >>]
    /\ finished_signal' = [finished_signal EXCEPT ![p] = 0]
    /\ steps' = [steps EXCEPT ![p] = << >>]
    /\ llm_calls' = [llm_calls EXCEPT ![p] = << >>]
    /\ retriever_calls' = [retriever_calls EXCEPT ![p] = << >>]
    /\ before' = [before EXCEPT ![p] = NoSnapshot]
    /\ UNCHANGED << agentVars, overlapped >>

Step(p) ==
    \/ Setup(p) \/ Condense(p) \/ Retrieve(p) \/ Respond(p) \/ Timeout(p)
    \/ Consume(p) \/ StreamRaise(p) \/ Finish(p) \/ Discard(p)

Next == \E p \in Procs : StartSerial(p) \/ Step(p)

Spec == Init /\ [][Next]_vars

\* no discipline on the callers: the workflows of two invocations, one per
\* thread, interleave at step boundaries
NextConcurrent ==
    \E p \in Procs : Start(p) \/ Setup(p) \/ Condense(p) \/ Retrieve(p) \/ Respond(p)

SpecConcurrent == Init /\ [][NextConcurrent]_vars

\* udpate_index on an agent without index, for any sequence of documents the
\* reader may yield (the documents of the files in any interleaving)
ReadSequences ==
    UNION { { [i \in 1..n |-> [file_path |-> paths[i], text |-> "text"]] : paths \in [1..n -> Files] }
            : n \in 1..MaxRead }

IndexRead ==
    /\ search_index = None
    /\ \E read \in ReadSequences :
          search_index' = IndexedInto(search_index, AssignPageIndex(read))
    /\ retriever' = Retriever
    /\ UNCHANGED << chat_history, lookup_files, pc, thread, ev, ctx, output,
                    full_response_str, update_signal, finished_signal, steps, llm_calls,
                    retriever_calls, before, overlapped >>

\* udpate_index with no files
IndexClear ==
    /\ search_index # None
    /\ \E o \in ClearOutcome(search_index, retriever) :
          search_index' = o.search_index /\ retriever' = o.retriever
    /\ UNCHANGED << chat_history, lookup_files, pc, thread, ev, ctx, output,
                    full_response_str, update_signal, finished_signal, steps, llm_calls,
                    retriever_calls, before, overlapped >>

NextPageIndex == IndexRead \/ IndexClear

SpecPageIndex == Init /\ [][NextPageIndex]_vars

\* =================================================================== claims
Stages == << "setup", "condense_history_to_query", "retrieve", "llm_response" >>

IsPrefix(s, t) == Len(s) <= Len(t) /\ \A i \in 1..Len(s) : s[i] = t[i]

\* the invocation of p has completed Setup
SetupDone(p) == ev[p].type \in {"SetupEvent", "CondenseQueryEvent", "RetrievalEvent", "StopEvent"}

\* the number of chunks of the index with this source path and ordinal
ChunkCount(idx, f, n) ==
    Cardinality({ i \in 1..Len(idx.docs) :
                    idx.docs[i].file_path = f /\ idx.docs[i].page_index = n })

\* the corpus holds each document of the files once and nothing else
CorpusIsExactly(idx, files) ==
    /\ idx # None
    /\ \A f \in Files, n \in 0..MaxChunks :
          ChunkCount(idx, f, n) = IF f \in files /\ n < DocCount(f) THEN 1 ELSE 0

\* the text a stream of deltas carries
RECURSIVE StreamText(_)
StreamText(stream) ==
    IF stream = << >> THEN << >>
    ELSE (IF "content" \in DOMAIN Head(stream) THEN Head(stream).content ELSE << >>)
         \o StreamText(Tail(stream))

IsOriginalQuery(text) == \E in \in Prompts : text = in.prompt
IsFinalAnswer(text) == \E stream \in Streams : text = StreamText(stream)
Contains(text, token) == \E i \in 1..Len(text) : text[i] = token

\* whole exchanges: user, assistant, user, assistant, ...
Alternates(history) ==
    /\ Len(history) % 2 = 0
    /\ \A i \in 1..Len(history) : history[i].role = IF i % 2 = 1 THEN "user" ELSE "assistant"

\* C1: whenever Setup received a non-empty lookup-file set that differs from
\* the retained one, the corpus after Setup holds the chunks of exactly the
\* files of the new set, each once, and nothing of earlier invocations.
C1_SetupRebuildsFromNewSet ==
    \A p \in Procs :
        (/\ ev[p].type = "SetupEvent"
         /\ thread[p].lookup_files # {}
         /\ thread[p].lookup_files # before[p].lookup_files)
        => CorpusIsExactly(search_index, thread[p].lookup_files)

\* C2: when the lookup-file set of an invocation equals the retained set, Setup
\* leaves the index, the retriever and the retained set as they were.
C2_EqualSetIsNoOp ==
    \A p \in Procs :
        (SetupDone(p) /\ thread[p].lookup_files = before[p].lookup_files)
        => /\ search_index = before[p].search_index
           /\ retriever = before[p].retriever
           /\ lookup_files = before[p].lookup_files

\* a second consecutive invocation with the same non-empty set has passed Setup
C2_Witness ==
    \E p \in Procs :
        /\ ev[p].type = "SetupEvent"
        /\ thread[p].lookup_files = before[p].lookup_files
        /\ before[p].lookup_files # {}
        /\ before[p].search_index # None

\* C3: every user entry of the chat history is the original query of an
\* invocation and every assistant entry a final model answer; no entry is a
\* condensed query or a context-augmented prompt.
C3_HistoryHoldsOnlyQueriesAndAnswers ==
    \A i \in 1..Len(chat_history) :
        /\ chat_history[i].role \in {"user", "assistant"}
        /\ chat_history[i].role = "user" => IsOriginalQuery(chat_history[i].content)
        /\ chat_history[i].role = "assistant" => IsFinalAnswer(chat_history[i].content)
        /\ ~Contains(chat_history[i].content, "Context:\n")
        /\ ~Contains(chat_history[i].content, "Information that might help:\n-----\n")

\* an invocation that condensed its query and answered on a prompt with
\* retrieved context has recorded both of its turns
C3_Witness ==
    \E p \in Procs :
        /\ pc[p] = "Done"
        /\ Len(llm_calls[p]) = 2
        /\ Contains(llm_calls[p][2].messages[Len(llm_calls[p][2].messages)].content,
                    "Information that might help:\n-----\n")
        /\ Len(chat_history) >= 2

\* C4: after a successful invocation the last two entries of the history are
\* the user turn with its original query and the assistant turn with its model
\* output; and if the history was whole user, assistant exchanges before it, it still is.
C4_SuccessAppendsUserThenAssistant ==
    \A p \in Procs :
        pc[p] = "Done"
        => /\ Len(chat_history) >= 2
           /\ chat_history[Len(chat_history) - 1] = [role |-> "user", content |-> thread[p].prompt]
           /\ chat_history[Len(chat_history)] =
                  [role |-> "assistant", content |-> StreamText(ev[p].result)]
           /\ Alternates(before[p].chat_history) => Alternates(chat_history)

\* a second successful invocation in a row has ended
C4_Witness ==
    \E p \in Procs :
        /\ pc[p] = "Done"
        /\ Len(chat_history) = 4
        /\ Alternates(chat_history)
        /\ Len(StreamText(ev[p].result)) = 2

\* C5: when an invocation has failed, in whatever stage, the chat history is
\* what it was before the invocation.
C5_FailureLeavesHistory ==
    \A p \in Procs : pc[p] = "Failed" => chat_history = before[p].chat_history

C7_EmptySetEmptyHistoryShortCircuits ==
    \A p \in Procs :
        (pc[p] = "chat_completion" /\ thread[p].lookup_files = {} /\ before[p].chat_history = << >>)
        => /\ ev[p].type = "CondenseQueryEvent"
                 => ev[p].condensed_query_str = thread[p].prompt /\ llm_calls[p] = << >>
           /\ ev[p].type = "RetrievalEvent"
                 => ev[p].nodes = << >> /\ retriever_calls[p] = << >> /\ llm_calls[p] = << >>

\* such an invocation has passed Retrieving after a set was retained
C7_Witness ==
    \E p \in Procs :
        /\ pc[p] = "chat_completion"
        /\ ev[p].type = "RetrievalEvent"
        /\ thread[p].lookup_files = {}
        /\ before[p].chat_history = << >>
        /\ before[p].lookup_files # {}
        /\ before[p].retriever # None

C9_StagesRunInOrder ==
    \A p \in Procs :
        /\ IsPrefix(steps[p], Stages)
        /\ ev[p].type = "NoEvent" => steps[p] = << >>
        /\ ev[p].type = "StopEvent" => Len(steps[p]) = 4
        /\ pc[p] \in {"for_chunk", "Done"} => ev[p].type = "StopEvent"
        /\ (pc[p] = "chat_completion" /\ ev[p].type = "StartEvent") => Len(steps[p]) = 0
        /\ (pc[p] = "chat_completion" /\ ev[p].type = "SetupEvent") => Len(steps[p]) = 1
        /\ (pc[p] = "chat_completion" /\ ev[p].type = "CondenseQueryEvent") => Len(steps[p]) = 2
        /\ (pc[p] = "chat_completion" /\ ev[p].type = "RetrievalEvent") => Len(steps[p]) = 3
        /\ (pc[p] = "Failed" /\ ev[p].type = "StartEvent") => Len(steps[p]) = 1
        /\ (pc[p] = "Failed" /\ ev[p].type = "SetupEvent") => Len(steps[p]) \in {1, 2}
        /\ (pc[p] = "Failed" /\ ev[p].type = "CondenseQueryEvent") => Len(steps[p]) \in {2, 3}
        /\ (pc[p] = "Failed" /\ ev[p].type = "RetrievalEvent") => Len(steps[p]) \in {3, 4}

\* an invocation has failed in Retrieving, after three steps
C9_Witness ==
    \E p \in Procs :
        /\ pc[p] = "Failed"
        /\ steps[p] = << "setup", "condense_history_to_query", "retrieve" >>

\* C10: no two chunks of the indexed corpus have the same source path and the
\* same ordinal.
C10_OrdinalsUniquePerSource ==
    search_index # None
    => \A i, j \in 1..Len(search_index.docs) :
          (/\ search_index.docs[i].file_path = search_index.docs[j].file_path
           /\ search_index.docs[i].page_index = search_index.docs[j].page_index)
          => i = j

\* the positions of the chunks of file f in the index
ChunksOf(idx, f) == { i \in 1..Len(idx.docs) : idx.docs[i].file_path = f }

\* C11: within one index update the documents of each file carry the ordinals
\* 0..n-1, n the file's document count, without gap or repeat and in read
\* order, however the files' documents are interleaved.
C11_OrdinalsPerFileInReadOrder ==
    search_index # None
    => \A f \in Files :
          /\ { search_index.docs[i].page_index : i \in ChunksOf(search_index, f) }
                 = 0..(Cardinality(ChunksOf(search_index, f)) - 1)
          /\ \A i, j \in ChunksOf(search_index, f) :
                i < j => search_index.docs[i].page_index < search_index.docs[j].page_index

\* an update has indexed two files whose documents were read interleaved
C11_Witness ==
    /\ search_index # None
    /\ Len(search_index.docs) >= 4
    /\ \E i, j, l \in 1..Len(search_index.docs) :
          /\ i < j /\ j < l
          /\ search_index.docs[i].file_path = search_index.docs[l].file_path
          /\ search_index.docs[i].file_path # search_index.docs[j].file_path
          /\ search_index.docs[l].page_index = 1
    /\ Cardinality(ChunksOf(search_index, "a.txt")) # Cardinality(ChunksOf(search_index, "b.txt"))

\* C12: while the stream of an invocation is not fully consumed, and after it
\* failed midway, the chat history holds no entry of that invocation.
C12_NothingAppendedBeforeStreamEnds ==
    \A p \in Procs :
        (\/ pc[p] = "for_chunk" /\ output[p] # << >>
         \/ pc[p] = "Failed" /\ ev[p].type = "StopEvent")
        => chat_history = before[p].chat_history

\* the history the final model call of p received (the messages but the last)
ReceivedHistory(p) ==
    LET call == llm_calls[p][Len(llm_calls[p])]
    IN SubSeq(call.messages, 1, Len(call.messages) - 1)

RespondCalled(p) == Len(steps[p]) = 4 /\ Len(llm_calls[p]) >= 1

\* the Retrieving stage of p ran against an index built for another set
StaleRetrieved(p) ==
    \E i \in 1..Len(retriever_calls[p]) :
        retriever_calls[p][i].indexed_for # thread[p].lookup_files

\* the final call of p received a history that ends with a user turn appended
\* after p started
HistoryRace(p) ==
    /\ RespondCalled(p)
    /\ ReceivedHistory(p) # before[p].chat_history
    /\ ReceivedHistory(p)[Len(ReceivedHistory(p))].role = "user"

C14_RetrievedNodesRespectCutoffAndK ==
    \A p \in Procs :
        (pc[p] = "chat_completion" /\ ev[p].type = "RetrievalEvent")
        => /\ Len(ev[p].nodes) <= k
           /\ \A i \in 1..Len(ev[p].nodes) : ev[p].nodes[i].score >= similarity_cutoff
           /\ \A i \in 1..(Len(ev[p].nodes) - 1) :
                 ev[p].nodes[i].score >= ev[p].nodes[i + 1].score
           /\ retriever # None
                 => \E ranked \in Aretrieve(search_index, retriever) :
                       IsPrefix(ev[p].nodes, ranked)
           /\ retriever = None => ev[p].nodes = << >>

\* on an index of more than k chunks the retriever returned k nodes and the
\* cutoff dropped one of them
C14_Witness ==
    \E p \in Procs :
        /\ pc[p] = "chat_completion"
        /\ ev[p].type = "RetrievalEvent"
        /\ search_index # None
        /\ Len(search_index.docs) > k
        /\ Len(ev[p].nodes) = 2
        /\ ev[p].nodes[1] # ev[p].nodes[2]

\* what one node contributes to the context: its text between "\n" and "\n\n"
NodeTokens(node) ==
    << "\n", node.file_path, "#", ToString(node.page_index), node.text, "\n\n" >>

\* every node contributes the same number of tokens
NodeSpan(nodes) == Len(NodeTokens(nodes[1]))

\* the text of the message the final model call of p ends with
FinalPrompt(p) ==
    LET call == llm_calls[p][Len(llm_calls[p])]
    IN call.messages[Len(call.messages)].content

\* C15: the composed prompt is the query verbatim exactly when there is no
\* node; otherwise it is the template: the preamble, every node's text once in
\* the retriever's order, the instruction, the original query.
C15_ComposeEmbedsNodesInOrder ==
    \A p \in Procs :
        (pc[p] = "Failed" /\ ev[p].type = "RetrievalEvent" /\ RespondCalled(p))
        => LET nodes == ev[p].nodes
               text == FinalPrompt(p)
               n == Len(nodes)
           IN IF n = 0 THEN text = thread[p].prompt
              ELSE /\ text # thread[p].prompt
                   /\ Len(text) = 1 + NodeSpan(nodes) * n + 1 + Len(thread[p].prompt) + 1
                   /\ text[1] = "Information that might help:\n-----\n"
                   /\ \A i \in 1..n :
                         SubSeq(text, 2 + NodeSpan(nodes) * (i - 1), 1 + NodeSpan(nodes) * i)
                             = NodeTokens(nodes[i])
                   /\ text[2 + NodeSpan(nodes) * n] =
                         "\n-----\nPlease write a response to the following question, using the above information if relevant:\n"
                   /\ SubSeq(text, 3 + NodeSpan(nodes) * n, Len(text) - 1) = thread[p].prompt
                   /\ text[Len(text)] = "\n"

\* a prompt was composed from two different nodes
C15_Witness ==
    \E p \in Procs :
        /\ pc[p] = "Failed"
        /\ ev[p].type = "RetrievalEvent"
        /\ RespondCalled(p)
        /\ Len(ev[p].nodes) >= 2
        /\ ev[p].nodes[1] # ev[p].nodes[2]

\* C16: the final model call receives the chat history as it was before this
\* invocation's user turn, then one user message composed from the original
\* query (never the condensed one), with the invocation's streaming flag; the
\* user turn is appended when the call has returned, not before and not if it raised.
C16_FinalCallSeesHistoryBeforeUserTurn ==
    \A p \in Procs :
        RespondCalled(p)
        => LET call == llm_calls[p][Len(llm_calls[p])]
               message == call.messages[Len(call.messages)]
           IN /\ ReceivedHistory(p) = before[p].chat_history
              /\ message.role = "user"
              /\ ~Contains(message.content, "Context:\n")
              /\ \/ message.content = thread[p].prompt
                 \/ /\ message.content[1] = "Information that might help:\n-----\n"
                    /\ SubSeq(message.content, Len(message.content) - Len(thread[p].prompt),
                              Len(message.content) - 1) = thread[p].prompt
              /\ call.stream = ctx[p].streaming
              /\ pc[p] = "Failed" /\ ev[p].type = "RetrievalEvent"
                    => chat_history = before[p].chat_history
              /\ ev[p].type = "StopEvent"
                    => /\ Len(chat_history) > Len(before[p].chat_history)
                       /\ SubSeq(chat_history, 1, Len(before[p].chat_history) + 1)
                              = before[p].chat_history
                                \o << [role |-> "user", content |-> thread[p].prompt] >>

\* a streaming invocation with a history, a condensed query and retrieved
\* context has made its final call
C16_Witness ==
    \E p \in Procs :
        /\ pc[p] = "for_chunk"
        /\ before[p].chat_history # << >>
        /\ Len(llm_calls[p]) = 2
        /\ Len(FinalPrompt(p)) > Len(thread[p].prompt)
        /\ ctx[p].streaming

\* C17: between invocations the retriever is configured exactly when a search
\* index exists, and exactly when the retained lookup-file set is non-empty.
C17_IndexStateAgrees ==
    (\A p \in Procs : ~InFlight(p))
    => /\ (retriever # None) <=> (search_index # None)
       /\ (retriever # None) <=> (lookup_files # {})

\* an invocation that had to drop a configured index has ended
C17_Witness ==
    \E p \in Procs :
        /\ \A q \in Procs : ~InFlight(q)
        /\ pc[p] \in {"Done", "Failed"}
        /\ thread[p].lookup_files = {}
        /\ before[p].retriever # None
        /\ retriever = None

\* C18: when the index update raised during Setup the retained set keeps its
\* previous value and still differs from the incoming set, so that the same
\* set meets a mismatch again; once Setup has completed the retained set is
\* the incoming one.
C18_RetainedSetOnlyAfterSetupCompletes ==
    \A p \in Procs :
        /\ (pc[p] = "Failed" /\ ev[p].type = "StartEvent")
              => /\ lookup_files = before[p].lookup_files
                 /\ lookup_files # thread[p].lookup_files
        /\ SetupDone(p) => lookup_files = thread[p].lookup_files

\* an index update raised after it had inserted some documents
C18_Witness ==
    \E p \in Procs :
        /\ pc[p] = "Failed"
        /\ ev[p].type = "StartEvent"
        /\ search_index # before[p].search_index
        /\ lookup_files # {}

\* the content fragments of a stream, in order
RECURSIVE ContentFragments(_)
ContentFragments(stream) ==
    IF stream = << >> THEN << >>
    ELSE (IF "content" \in DOMAIN Head(stream) /\ ~("role" \in DOMAIN Head(stream))
          THEN << Head(stream).content >> ELSE << >>)
         \o ContentFragments(Tail(stream))

====
